---- MODULE Spec2Model ----
(***************************************************************************)
(* Job lifecycle and retry/requeue engine of the distributed email sender: *)
(* the API's SubmitEmailUseCase (TypeScript), the Redis status store, the  *)
(* RabbitMQ queues, and the Go worker's consume loop, ProcessEmailJob and  *)
(* HandleRetry with its detached retry goroutines.                         *)
(***************************************************************************)
EXTENDS Integers, Sequences, FiniteSets, TLC

\* ---------------------------------------------------------------- bounds
MaxJobs == 1
MaxDups == 1
\* largest retry count of a job handed to HandleRetry as an input
MaxRetryCount == 10
\* messages put on email_tasks by publishers other than the API and the worker
MaxMalformed == 1

Jobs == 1..MaxJobs

\* ------------------------------------------------------- program constants
\* max_retries written by the API into every queue message
ApiMaxRetries == 3
\* cap of the backoff delay, in seconds
CapSeconds == 30

\* JSON field that is not present in a document
Absent == -1
\* JSON string member that is not present in a document
AbsentString == "(absent)"
NoJob == [absent |-> TRUE]
NoErr == ""

\* recipient classes, by what simulateErrorForTestingEmails does with them
ToKinds == {"plain", "error", "error-1"}

JobStatusPending == "pending"
JobStatusProcessing == "processing"
JobStatusCompleted == "completed"
JobStatusFailed == "failed"
JobStatusRetrying == "retrying"

\* error codes of internal/domain/errors
ValidationErrorCode == "VALIDATION_ERROR"
ConfigErrorCode == "CONFIG_ERROR"
RedisErrorCode == "REDIS_ERROR"
RabbitMQErrorCode == "RABBITMQ_ERROR"
SMTPErrorCode == "SMTP_ERROR"
JobProcessingErrorCode == "JOB_PROCESSING_ERROR"
RetryExceededErrorCode == "RETRY_EXCEEDED_ERROR"

VARIABLES
    apiPc,          \* per request: "new", "stored", "queued", "failed"
    jobTo,          \* per request: class of the recipient address
    store,          \* Redis: job:<id> -> stored record, or NoJob
    events,         \* per job: events published on job_status_updates
    mainQueue,      \* RabbitMQ queue email_tasks
    failedQueue,    \* RabbitMQ queue email_tasks_failed
    timers,         \* retry goroutines sleeping before the republish
    pc,             \* position of the consume loop / handler
    cur,            \* the *models.EmailJob the handler works on
    err,            \* error code returned by ProcessEmailJob
    len0,           \* length of the stored history when the job was picked up
    sends,          \* per job: number of SendEmail invocations
    dupCount,       \* number of duplicated deliveries so far
    isRunning,      \* WorkerService.isRunning
    jobsProcessed,  \* HealthHandler jobs-processed counter
    storeUp,        \* Redis reachable
    queueUp,        \* RabbitMQ reachable
    smtpConfigOk,   \* SMTPService.ValidateConfig() passes
    retryErr,       \* value HandleRetry returned to handleEmailJob
    connClosed,     \* the worker's Redis and RabbitMQ connections are closed
    malformed,      \* number of messages other publishers put on email_tasks
    mainPc,         \* position of the worker's main: "connect", "declare", "ping",
                    \* "config", "start", "running", "fatal"
    channelLost,    \* the worker's AMQP connection was dropped by the broker
    smtpUp,         \* the SMTP server accepts connections
    health          \* body of the last /health response, or NoHealth

vars == <<apiPc, jobTo, store, events, mainQueue, failedQueue, timers, pc, cur,
          err, len0, sends, dupCount, isRunning, jobsProcessed, storeUp,
          queueUp, smtpConfigOk, retryErr, connClosed, malformed, mainPc, channelLost, smtpUp, health>>

\* ------------------------------------------------------------ job model
IsTerminal(s) == s = JobStatusCompleted \/ s = JobStatusFailed

IsValid(s) ==
    s \in {JobStatusPending, JobStatusProcessing, JobStatusCompleted,
           JobStatusFailed, JobStatusRetrying}

HistEntry(status, errorMsg) == [status |-> status, error |-> errorMsg]

\* AddHistoryEntry putting the new entry in front of the history
AddHistoryEntryInFront(j, status, errorMsg) ==
    [j EXCEPT !.history = <<HistEntry(status, errorMsg)>> \o @]

\* AddHistoryEntry overwriting the history instead of appending to it
AddHistoryEntryOverwrite(j, status, errorMsg) ==
    [j EXCEPT !.history = <<HistEntry(status, errorMsg)>>]

AddHistoryEntry(j, status, errorMsg) ==
    [j EXCEPT !.history = Append(@, HistEntry(status, errorMsg))]

UpdateStatus(j, status, errorMsg) ==
    AddHistoryEntry([j EXCEPT !.status = status, !.lastError = errorMsg],
                    status, errorMsg)

\* IncrementRetry setting the count past the limit instead of adding one
IncrementRetryPastLimit(j, errorMsg) ==
    UpdateStatus([j EXCEPT !.retryCount = j.maxRetries + 1, !.lastError = errorMsg],
                 JobStatusRetrying, errorMsg)

IncrementRetry(j, errorMsg) ==
    UpdateStatus([j EXCEPT !.retryCount = @ + 1, !.lastError = errorMsg],
                 JobStatusRetrying, errorMsg)

\* CanProcess refusing completed jobs only
CanProcessUnlessCompleted(j) == j.status # JobStatusCompleted

CanProcess(j) == j.status = JobStatusPending \/ j.status = JobStatusRetrying

Validate(j) ==
    /\ j.id # Absent
    /\ j.to # ""
    /\ j.subject # ""
    /\ j.body # ""
    /\ j.maxRetries >= 0
    /\ IsValid(j.status)

\* ------------------------------------------------------------ error model
IsValidationError(e) == e = ValidationErrorCode
IsConfigError(e) == e = ConfigErrorCode
IsRetryableError(e) ==
    e \in {RedisErrorCode, RabbitMQErrorCode, SMTPErrorCode, JobProcessingErrorCode}

\* ShouldRetry without the configuration-error check
ShouldRetryNoConfigCheck(j, e) ==
    IF j.retryCount >= j.maxRetries THEN FALSE
    ELSE IF IsTerminal(j.status) THEN FALSE
    ELSE IF IsValidationError(e) THEN FALSE
    ELSE TRUE

\* ShouldRetry refusing errors it does not know
ShouldRetryKnownOnly(j, e) ==
    IF j.retryCount >= j.maxRetries THEN FALSE
    ELSE IF IsTerminal(j.status) THEN FALSE
    ELSE IF IsValidationError(e) THEN FALSE
    ELSE IF IsConfigError(e) THEN FALSE
    ELSE IF IsRetryableError(e) THEN TRUE
    ELSE FALSE

ShouldRetry(j, e) ==
    IF j.retryCount >= j.maxRetries THEN FALSE
    ELSE IF IsTerminal(j.status) THEN FALSE
    ELSE IF IsValidationError(e) THEN FALSE
    ELSE IF IsConfigError(e) THEN FALSE
    ELSE IF IsRetryableError(e) THEN TRUE
    ELSE TRUE

\* retry delay with the cap applied from 36 seconds on
RetryDelaySecondsLateCap(j) ==
    IF j.retryCount * j.retryCount > 36 THEN CapSeconds
    ELSE j.retryCount * j.retryCount

\* retry delay in seconds
RetryDelaySeconds(j) ==
    IF j.retryCount * j.retryCount > CapSeconds THEN CapSeconds
    ELSE j.retryCount * j.retryCount

\* ------------------------------------------------------------ wire formats
\* A queue message body is a JSON object; "content" holds its content member
\* and "flat" the job members found at the top level, each as a sequence of
\* zero or one job (empty when the member is not there).
ApiJob(id, to) ==
    [id |-> id, to |-> to, subject |-> "subject", body |-> "body",
     createdAt |-> "createdAt", status |-> JobStatusPending, retryCount |-> 0,
     maxRetries |-> ApiMaxRetries, lastError |-> NoErr,
     history |-> <<HistEntry(JobStatusPending, NoErr)>>]

\* SubmitEmailUseCase: emailMessage = { content: {...} }
ApiMessage(id, to) == [content |-> <<ApiJob(id, to)>>, flat |-> <<>>]

\* RabbitMQService.PublishEmailJob: Body = json.Marshal(job)
MarshalJob(j) == [content |-> <<>>, flat |-> <<j>>]

\* ConsumeEmailJobs handing the decoded job to the handler without Validate
UnmarshalMessageNoValidate(m) ==
    IF m.content = <<>> THEN <<>>
    ELSE m.content

\* ConsumeEmailJobs: unmarshal the wrapper, then the job from its content,
\* then Validate; the empty sequence when the message is dropped.
UnmarshalMessage(m) ==
    IF m.content = <<>> THEN <<>>
    ELSE IF ~Validate(m.content[1]) THEN <<>>
    ELSE m.content

\* SubmitEmailUseCase: jobStatus record written with setJobStatus
ApiRecord(id, to) ==
    [id |-> id, to |-> to, subject |-> "subject", body |-> AbsentString,
     createdAt |-> "createdAt", status |-> "queued", retryCount |-> 0,
     maxRetries |-> Absent, lastError |-> NoErr,
     history |-> <<HistEntry("queued", NoErr)>>]

\* RedisService.GetJob: json.Unmarshal into models.EmailJob (a missing
\* max_retries or body member leaves the Go zero value)
GetJob(st, id) ==
    IF st[id] = NoJob THEN NoJob
    ELSE [st[id] EXCEPT !.maxRetries = IF @ = Absent THEN 0 ELSE @,
                        !.body = IF @ = AbsentString THEN "" ELSE @]

\* UpdateJobStatus filling in the default retry limit when it writes back
UpdatedRecordDefaultsMaxRetries(j, status, errorMsg, retryCount) ==
    LET u == UpdateStatus(j, status, errorMsg)
    IN IF retryCount > 0
       THEN [u EXCEPT !.retryCount = retryCount, !.maxRetries = ApiMaxRetries]
       ELSE [u EXCEPT !.maxRetries = ApiMaxRetries]

\* The record RedisService.UpdateJobStatus writes back
UpdatedRecord(j, status, errorMsg, retryCount) ==
    LET u == UpdateStatus(j, status, errorMsg)
    IN IF retryCount > 0 THEN [u EXCEPT !.retryCount = retryCount] ELSE u

\* *errors.DomainError: Code, Message, and whether a Cause is attached
DomainError(code, message, hasCause) ==
    [code |-> code, message |-> message, cause |-> hasCause]

\* a nil error
NilError == DomainError(NoErr, "", FALSE)

\* GetJob reporting a missing key like any other failed read
GetJobErrorOpaque(up, st, id) ==
    IF ~up \/ st[id] = NoJob
    THEN DomainError(RedisErrorCode, "failed to get job", TRUE)
    ELSE NilError

\* The error RedisService.GetJob returns: a failed read, redis.Nil, or none
GetJobError(up, st, id) ==
    IF ~up THEN DomainError(RedisErrorCode, "failed to get job", TRUE)
    ELSE IF st[id] = NoJob THEN DomainError(RedisErrorCode, "job not found", FALSE)
    ELSE NilError

\* The error RedisService.UpdateJobStatus returns: GetJob's error as it is,
\* else nil after the write and the publish
UpdateJobStatusError(up, st, id) == GetJobError(up, st, id)

\* UpdateJobStatus succeeds iff Redis is reachable and the job is found
UpdateOk(up, st, id) == UpdateJobStatusError(up, st, id) = NilError

StoreAfterUpdate(up, st, id, status, errorMsg, retryCount) ==
    IF UpdateOk(up, st, id)
    THEN [st EXCEPT ![id] = UpdatedRecord(GetJob(st, id), status, errorMsg, retryCount)]
    ELSE st

\* JobStatusUpdate carrying the history as it was before the transition
StatusEventStaleHistory(j, status, errorMsg) ==
    [id |-> j.id, status |-> status,
     history |-> SubSeq(j.history, 1, Len(j.history) - 1),
     lastError |-> errorMsg, retryCount |-> j.retryCount]

\* JobStatusUpdate published after the write
StatusEvent(j, status, errorMsg) ==
    [id |-> j.id, status |-> status, history |-> j.history,
     lastError |-> errorMsg, retryCount |-> j.retryCount]

EventsAfterUpdate(up, ev, st, id, status, errorMsg, retryCount) ==
    IF UpdateOk(up, st, id)
    THEN [ev EXCEPT ![id] = Append(@,
            StatusEvent(UpdatedRecord(GetJob(st, id), status, errorMsg, retryCount),
                        status, errorMsg))]
    ELSE ev

\* ------------------------------------------------------------ SMTP model
\* SMTPService.simulateErrorForTestingEmails: TRUE when it returns an error
SimulateError(j) ==
    \/ (j.to = "error-1" /\ j.retryCount = 0)
    \/ j.to = "error"

\* Results SMTPService.SendEmail can return for the job ("" is success)
SendResults(j, cfgOk) ==
    IF ~Validate(j) THEN {ValidationErrorCode}
    ELSE IF ~cfgOk THEN {ConfigErrorCode}
    ELSE IF SimulateError(j) THEN {SMTPErrorCode}
    ELSE {NoErr, SMTPErrorCode}

NoCur == [id |-> Absent]

\* no health check has been answered yet
NoHealth == [status |-> ""]

\* ------------------------------------------------------------ initial state
Init ==
    /\ apiPc = [j \in Jobs |-> "new"]
    /\ jobTo = [j \in Jobs |-> "plain"]
    /\ store = [j \in Jobs |-> NoJob]
    /\ events = [j \in Jobs |-> <<>>]
    /\ mainQueue = <<>>
    /\ failedQueue = <<>>
    /\ timers = <<>>
    /\ pc = "idle"
    /\ cur = NoCur
    /\ err = NoErr
    /\ len0 = 0
    /\ sends = [j \in Jobs |-> 0]
    /\ dupCount = 0
    /\ isRunning = TRUE
    /\ jobsProcessed = 0
    /\ storeUp = TRUE
    /\ queueUp = TRUE
    /\ smtpConfigOk \in BOOLEAN
    /\ retryErr = NoErr
    /\ connClosed = FALSE
    /\ malformed = 0
    /\ mainPc = "running"
    /\ channelLost = FALSE
    /\ smtpUp = TRUE
    /\ health = NoHealth

\* ------------------------------------------------------------ API: submit
\* SubmitEmailUseCase.execute with the two awaits in the other order: the
\* message is sent first and the record is not yet written
SubmitStoreSendFirst(j, to) ==
    /\ apiPc[j] = "new"
    /\ queueUp
    /\ apiPc' = [apiPc EXCEPT ![j] = "stored"]
    /\ jobTo' = [jobTo EXCEPT ![j] = to]
    /\ mainQueue' = Append(mainQueue, ApiMessage(j, to))
    /\ UNCHANGED <<store, events, failedQueue, timers, pc, cur, err, len0,
                   sends, dupCount, isRunning, jobsProcessed, storeUp, queueUp,
                   smtpConfigOk, retryErr, connClosed, malformed, mainPc, channelLost, smtpUp, health>>

\* SubmitEmailUseCase.execute, first await: redisService.setJobStatus
SubmitStore(j, to) ==
    /\ apiPc[j] = "new"
    /\ storeUp
    /\ apiPc' = [apiPc EXCEPT ![j] = "stored"]
    /\ jobTo' = [jobTo EXCEPT ![j] = to]
    /\ store' = [store EXCEPT ![j] = ApiRecord(j, to)]
    /\ UNCHANGED <<events, mainQueue, failedQueue, timers, pc, cur, err, len0,
                   sends, dupCount, isRunning, jobsProcessed, storeUp, queueUp,
                   smtpConfigOk, retryErr, connClosed, malformed, mainPc, channelLost, smtpUp, health>>

\* SubmitEmailUseCase.execute answering "queued" whatever sendMessage did
SubmitEnqueueSwallowsError(j) ==
    /\ apiPc[j] = "stored"
    /\ mainQueue' = IF queueUp THEN Append(mainQueue, ApiMessage(j, jobTo[j]))
                    ELSE mainQueue
    /\ apiPc' = [apiPc EXCEPT ![j] = "queued"]
    /\ UNCHANGED <<jobTo, store, events, failedQueue, timers, pc, cur, err, len0,
                   sends, dupCount, isRunning, jobsProcessed, storeUp, queueUp,
                   smtpConfigOk, retryErr, connClosed, malformed, mainPc,
                   channelLost, smtpUp, health>>

\* SubmitEmailUseCase.execute, second await: messageBroker.sendMessage
SubmitEnqueue(j) ==
    /\ apiPc[j] = "stored"
    /\ IF queueUp
       THEN /\ mainQueue' = Append(mainQueue, ApiMessage(j, jobTo[j]))
            /\ apiPc' = [apiPc EXCEPT ![j] = "queued"]
       ELSE /\ mainQueue' = mainQueue
            /\ apiPc' = [apiPc EXCEPT ![j] = "failed"]
    /\ UNCHANGED <<jobTo, store, events, failedQueue, timers, pc, cur, err, len0,
                   sends, dupCount, isRunning, jobsProcessed, storeUp, queueUp,
                   smtpConfigOk, retryErr, connClosed, malformed, mainPc, channelLost, smtpUp, health>>

\* ------------------------------------------------------------ broker
\* At-least-once delivery: a message waiting on email_tasks is delivered twice
DuplicateDelivery(i) ==
    /\ dupCount < MaxDups
    /\ i \in 1..Len(mainQueue)
    /\ mainQueue' = Append(mainQueue, mainQueue[i])
    /\ dupCount' = dupCount + 1
    /\ UNCHANGED <<apiPc, jobTo, store, events, failedQueue, timers, pc, cur, err,
                   len0, sends, isRunning, jobsProcessed, storeUp, queueUp,
                   smtpConfigOk, retryErr, connClosed, malformed, mainPc, channelLost, smtpUp, health>>

\* ------------------------------------------------------------ worker
\* What the worker's Redis client and RabbitMQ channel can do: the server is
\* reachable and the connection has not been closed by Container.Shutdown
WorkerStoreUp == storeUp /\ ~connClosed

WorkerQueueUp == queueUp /\ ~connClosed /\ ~channelLost

\* handleEmailJob without the isRunning check
ConsumeWhenStopped ==
    /\ mainPc = "running"
    /\ pc = "idle"
    /\ WorkerQueueUp
    /\ mainQueue # <<>>
    /\ mainQueue' = Tail(mainQueue)
    /\ LET parsed == UnmarshalMessage(Head(mainQueue))
           job == parsed[1]
       IN IF parsed = <<>>
          THEN UNCHANGED <<store, events, pc, cur, err, len0>>
          ELSE IF ~CanProcess(job)
          THEN /\ pc' = "retry"
               /\ cur' = job
               /\ err' = JobProcessingErrorCode
               /\ len0' = IF store[job.id] = NoJob THEN 0 ELSE Len(store[job.id].history)
               /\ UNCHANGED <<store, events>>
          ELSE /\ pc' = "processing"
               /\ cur' = job
               /\ err' = NoErr
               /\ len0' = IF store[job.id] = NoJob THEN 0 ELSE Len(store[job.id].history)
               /\ store' = StoreAfterUpdate(WorkerStoreUp, store, job.id, JobStatusProcessing, NoErr, 0)
               /\ events' = EventsAfterUpdate(WorkerStoreUp, events, store, job.id, JobStatusProcessing, NoErr, 0)
    /\ retryErr' = NoErr
    /\ UNCHANGED <<apiPc, jobTo, failedQueue, timers, sends, dupCount, isRunning,
                   jobsProcessed, storeUp, queueUp, smtpConfigOk, connClosed, malformed, mainPc, channelLost, smtpUp, health>>

\* One iteration of the ConsumeEmailJobs loop up to the first suspension point
\* of the handler: unwrap, validate, handleEmailJob's isRunning check,
\* ProcessEmailJob's CanProcess guard and the write of "processing".
Consume ==
    /\ mainPc = "running"
    /\ pc = "idle"
    /\ WorkerQueueUp
    /\ mainQueue # <<>>
    /\ mainQueue' = Tail(mainQueue)
    /\ LET parsed == UnmarshalMessage(Head(mainQueue))
           job == parsed[1]
       IN IF parsed = <<>> \/ ~isRunning
          THEN UNCHANGED <<store, events, pc, cur, err, len0>>
          ELSE IF ~CanProcess(job)
          THEN /\ pc' = "retry"
               /\ cur' = job
               /\ err' = JobProcessingErrorCode
               /\ len0' = IF store[job.id] = NoJob THEN 0 ELSE Len(store[job.id].history)
               /\ UNCHANGED <<store, events>>
          ELSE /\ pc' = "processing"
               /\ cur' = job
               /\ err' = NoErr
               /\ len0' = IF store[job.id] = NoJob THEN 0 ELSE Len(store[job.id].history)
               /\ store' = StoreAfterUpdate(WorkerStoreUp, store, job.id, JobStatusProcessing, NoErr, 0)
               /\ events' = EventsAfterUpdate(WorkerStoreUp, events, store, job.id, JobStatusProcessing, NoErr, 0)
    /\ retryErr' = NoErr
    /\ UNCHANGED <<apiPc, jobTo, failedQueue, timers, sends, dupCount, isRunning,
                   jobsProcessed, storeUp, queueUp, smtpConfigOk, connClosed, malformed, mainPc, channelLost, smtpUp, health>>

\* ProcessEmailJob: sendEmailWithTracing -> SMTPService.SendEmail
SendEmail ==
    /\ pc = "processing"
    /\ \E r \in SendResults(cur, smtpConfigOk) :
         /\ (r = NoErr => smtpUp)
         /\ err' = r
         /\ pc' = IF r = NoErr THEN "sent" ELSE "senderr"
    /\ sends' = [sends EXCEPT ![cur.id] = @ + 1]
    /\ UNCHANGED <<apiPc, jobTo, store, events, mainQueue, failedQueue, timers, cur,
                   len0, dupCount, isRunning, jobsProcessed, storeUp, queueUp,
                   smtpConfigOk, retryErr, connClosed, malformed, mainPc, channelLost, smtpUp, health>>

\* IncrementJobsProcessed counting a job twice
IncrementJobsProcessedTwice(n) == n + 2

\* HealthHandler.IncrementJobsProcessed
IncrementJobsProcessed(n) == n + 1

\* ProcessEmailJob after a successful send, returning the store's error when
\* the write of "completed" does not succeed
CompleteStoreErrorFailsJob ==
    /\ pc = "sent"
    /\ store' = StoreAfterUpdate(WorkerStoreUp, store, cur.id, JobStatusCompleted, NoErr, 0)
    /\ events' = EventsAfterUpdate(WorkerStoreUp, events, store, cur.id, JobStatusCompleted, NoErr, 0)
    /\ IF UpdateOk(WorkerStoreUp, store, cur.id)
       THEN /\ jobsProcessed' = IncrementJobsProcessed(jobsProcessed)
            /\ pc' = "idle"
            /\ cur' = NoCur
            /\ err' = NoErr
            /\ len0' = 0
       ELSE /\ jobsProcessed' = jobsProcessed
            /\ pc' = "retry"
            /\ err' = RedisErrorCode
            /\ UNCHANGED <<cur, len0>>
    /\ UNCHANGED <<apiPc, jobTo, mainQueue, failedQueue, timers, sends, dupCount,
                   isRunning, storeUp, queueUp, smtpConfigOk, retryErr,
                   connClosed, malformed, mainPc, channelLost, smtpUp, health>>

\* ProcessEmailJob after a successful send: write "completed", return nil;
\* handleEmailJob then increments the processed counter.
Complete ==
    /\ pc = "sent"
    /\ store' = StoreAfterUpdate(WorkerStoreUp, store, cur.id, JobStatusCompleted, NoErr, 0)
    /\ events' = EventsAfterUpdate(WorkerStoreUp, events, store, cur.id, JobStatusCompleted, NoErr, 0)
    /\ jobsProcessed' = IncrementJobsProcessed(jobsProcessed)
    /\ pc' = "idle"
    /\ cur' = NoCur
    /\ err' = NoErr
    /\ len0' = 0
    /\ UNCHANGED <<apiPc, jobTo, mainQueue, failedQueue, timers, sends, dupCount,
                   isRunning, storeUp, queueUp, smtpConfigOk, retryErr, connClosed, malformed, mainPc, channelLost, smtpUp, health>>

\* ProcessEmailJob after a failed send, returning to the loop without the
\* send error when the write of "failed" does not succeed
MarkFailedStoreErrorEndsHandler ==
    /\ pc = "senderr"
    /\ store' = StoreAfterUpdate(WorkerStoreUp, store, cur.id, JobStatusFailed, err, 0)
    /\ events' = EventsAfterUpdate(WorkerStoreUp, events, store, cur.id, JobStatusFailed, err, 0)
    /\ IF UpdateOk(WorkerStoreUp, store, cur.id)
       THEN pc' = "retry" /\ UNCHANGED <<cur, err, len0>>
       ELSE pc' = "idle" /\ cur' = NoCur /\ err' = NoErr /\ len0' = 0
    /\ UNCHANGED <<apiPc, jobTo, mainQueue, failedQueue, timers,
                   sends, dupCount, isRunning, jobsProcessed, storeUp, queueUp,
                   smtpConfigOk, retryErr, connClosed, malformed, mainPc, channelLost, smtpUp, health>>

\* ProcessEmailJob after a failed send: write "failed", return the error
MarkFailed ==
    /\ pc = "senderr"
    /\ store' = StoreAfterUpdate(WorkerStoreUp, store, cur.id, JobStatusFailed, err, 0)
    /\ events' = EventsAfterUpdate(WorkerStoreUp, events, store, cur.id, JobStatusFailed, err, 0)
    /\ pc' = "retry"
    /\ UNCHANGED <<apiPc, jobTo, mainQueue, failedQueue, timers, cur, err, len0,
                   sends, dupCount, isRunning, jobsProcessed, storeUp, queueUp,
                   smtpConfigOk, retryErr, connClosed, malformed, mainPc, channelLost, smtpUp, health>>

\* handleMaxRetriesExceeded: the job and the message for email_tasks_failed
FinalError(j, e) == "Failed after " \o ToString(j.retryCount) \o " retries: " \o e

FailedJob(j, e) == UpdateStatus(j, JobStatusFailed, FinalError(j, e))

\* The error RabbitMQService.PublishEmailJob returns: the job fails Validate,
\* the channel's publish fails, or none
PublishError(up, j) ==
    IF ~Validate(j) THEN DomainError(ValidationErrorCode, "invalid job", TRUE)
    ELSE IF ~up THEN DomainError(RabbitMQErrorCode, "failed to publish job", TRUE)
    ELSE NilError

\* RabbitMQService.PublishEmailJob succeeds iff the channel works and the job
\* passes Validate
PublishOk(up, j) == PublishError(up, j) = NilError

\* handleMaxRetriesExceeded with the failed publish swallowed
FinaliseResultSwallowed(published) ==
    IF published THEN RetryExceededErrorCode ELSE NoErr

\* Error handleMaxRetriesExceeded returns: the publish failure, or else the
\* retry-exceeded error
FinaliseResult(published) ==
    IF published THEN RetryExceededErrorCode ELSE JobProcessingErrorCode

\* The goroutine HandleRetry starts: the job it captured and its sleep
RetryGoroutine(j) == [job |-> j, delay |-> RetryDelaySeconds(j)]

\* HandleRetry starting the retry goroutine twice
HandleRetryTwoGoroutines ==
    /\ pc = "retry"
    /\ IF ~ShouldRetry(cur, err)
       THEN LET fj == FailedJob(cur, err)
            IN /\ store' = StoreAfterUpdate(WorkerStoreUp, store, cur.id, JobStatusFailed,
                                            FinalError(cur, err), fj.retryCount)
               /\ events' = EventsAfterUpdate(WorkerStoreUp, events, store, cur.id, JobStatusFailed,
                                              FinalError(cur, err), fj.retryCount)
               /\ failedQueue' = IF PublishOk(WorkerQueueUp, fj)
                                 THEN Append(failedQueue, MarshalJob(fj))
                                 ELSE failedQueue
               /\ retryErr' = FinaliseResult(PublishOk(WorkerQueueUp, fj))
               /\ timers' = timers
       ELSE LET rj == IncrementRetry(cur, err)
            IN /\ store' = StoreAfterUpdate(WorkerStoreUp, store, cur.id, JobStatusRetrying,
                                            err, rj.retryCount)
               /\ events' = EventsAfterUpdate(WorkerStoreUp, events, store, cur.id, JobStatusRetrying,
                                              err, rj.retryCount)
               /\ timers' = Append(Append(timers, RetryGoroutine(rj)), RetryGoroutine(rj))
               /\ failedQueue' = failedQueue
               /\ retryErr' = NoErr
    /\ pc' = "idle"
    /\ cur' = NoCur
    /\ err' = NoErr
    /\ len0' = 0
    /\ UNCHANGED <<apiPc, jobTo, mainQueue, sends, dupCount, isRunning,
                   jobsProcessed, storeUp, queueUp, smtpConfigOk, connClosed, malformed, mainPc, channelLost, smtpUp, health>>

\* HandleRetry sleeping the delay itself and republishing before it returns
HandleRetryInline ==
    /\ pc = "retry"
    /\ IF ~ShouldRetry(cur, err)
       THEN LET fj == FailedJob(cur, err)
            IN /\ store' = StoreAfterUpdate(WorkerStoreUp, store, cur.id, JobStatusFailed,
                                            FinalError(cur, err), fj.retryCount)
               /\ events' = EventsAfterUpdate(WorkerStoreUp, events, store, cur.id, JobStatusFailed,
                                              FinalError(cur, err), fj.retryCount)
               /\ failedQueue' = IF PublishOk(WorkerQueueUp, fj)
                                 THEN Append(failedQueue, MarshalJob(fj))
                                 ELSE failedQueue
               /\ retryErr' = FinaliseResult(PublishOk(WorkerQueueUp, fj))
               /\ timers' = timers
               /\ mainQueue' = mainQueue
       ELSE LET rj == IncrementRetry(cur, err)
            IN /\ store' = StoreAfterUpdate(WorkerStoreUp, store, cur.id, JobStatusRetrying,
                                            err, rj.retryCount)
               /\ events' = EventsAfterUpdate(WorkerStoreUp, events, store, cur.id, JobStatusRetrying,
                                              err, rj.retryCount)
               /\ timers' = timers
               /\ mainQueue' = IF PublishOk(WorkerQueueUp, rj)
                               THEN Append(mainQueue, MarshalJob(rj))
                               ELSE mainQueue
               /\ failedQueue' = failedQueue
               /\ retryErr' = NoErr
    /\ pc' = "idle"
    /\ cur' = NoCur
    /\ err' = NoErr
    /\ len0' = 0
    /\ UNCHANGED <<apiPc, jobTo, sends, dupCount, isRunning,
                   jobsProcessed, storeUp, queueUp, smtpConfigOk, connClosed, malformed, mainPc, channelLost, smtpUp, health>>

\* RetryHandlerUseCaseImpl.HandleRetry, called by handleEmailJob with the
\* error ProcessEmailJob returned
HandleRetry ==
    /\ pc = "retry"
    /\ IF ~ShouldRetry(cur, err)
       THEN LET fj == FailedJob(cur, err)
            IN /\ store' = StoreAfterUpdate(WorkerStoreUp, store, cur.id, JobStatusFailed,
                                            FinalError(cur, err), fj.retryCount)
               /\ events' = EventsAfterUpdate(WorkerStoreUp, events, store, cur.id, JobStatusFailed,
                                              FinalError(cur, err), fj.retryCount)
               /\ failedQueue' = IF PublishOk(WorkerQueueUp, fj)
                                 THEN Append(failedQueue, MarshalJob(fj))
                                 ELSE failedQueue
               /\ retryErr' = FinaliseResult(PublishOk(WorkerQueueUp, fj))
               /\ timers' = timers
       ELSE LET rj == IncrementRetry(cur, err)
            IN /\ store' = StoreAfterUpdate(WorkerStoreUp, store, cur.id, JobStatusRetrying,
                                            err, rj.retryCount)
               /\ events' = EventsAfterUpdate(WorkerStoreUp, events, store, cur.id, JobStatusRetrying,
                                              err, rj.retryCount)
               /\ timers' = Append(timers, RetryGoroutine(rj))
               /\ failedQueue' = failedQueue
               /\ retryErr' = NoErr
    /\ pc' = "idle"
    /\ cur' = NoCur
    /\ err' = NoErr
    /\ len0' = 0
    /\ UNCHANGED <<apiPc, jobTo, mainQueue, sends, dupCount, isRunning,
                   jobsProcessed, storeUp, queueUp, smtpConfigOk, connClosed, malformed, mainPc, channelLost, smtpUp, health>>

RemoveAt(s, i) == SubSeq(s, 1, i - 1) \o SubSeq(s, i + 1, Len(s))

\* The goroutine started by HandleRetry, after time.Sleep(retryDelaySeconds)
RetryTimer(i) ==
    /\ i \in 1..Len(timers)
    /\ LET job == timers[i].job
       IN IF PublishOk(WorkerQueueUp, job)
          THEN /\ mainQueue' = Append(mainQueue, MarshalJob(job))
               /\ UNCHANGED <<store, events>>
          ELSE /\ mainQueue' = mainQueue
               /\ store' = StoreAfterUpdate(WorkerStoreUp, store, job.id, JobStatusFailed,
                                            "Failed to requeue", job.retryCount)
               /\ events' = EventsAfterUpdate(WorkerStoreUp, events, store, job.id, JobStatusFailed,
                                              "Failed to requeue", job.retryCount)
    /\ timers' = RemoveAt(timers, i)
    /\ UNCHANGED <<apiPc, jobTo, failedQueue, pc, cur, err, len0, sends, dupCount,
                   isRunning, jobsProcessed, storeUp, queueUp, smtpConfigOk, retryErr, connClosed, malformed, mainPc, channelLost, smtpUp, health>>

\* WorkerService.Stop
Stop ==
    /\ isRunning
    /\ isRunning' = FALSE
    /\ UNCHANGED <<apiPc, jobTo, store, events, mainQueue, failedQueue, timers, pc,
                   cur, err, len0, sends, dupCount, jobsProcessed, storeUp, queueUp,
                   smtpConfigOk, retryErr, connClosed, malformed, mainPc, channelLost, smtpUp, health>>

Next ==
    \/ \E j \in Jobs, to \in ToKinds : SubmitStore(j, to)
    \/ \E j \in Jobs : SubmitEnqueue(j)
    \/ \E i \in 1..Len(mainQueue) : DuplicateDelivery(i)
    \/ Consume
    \/ SendEmail
    \/ Complete
    \/ MarkFailed
    \/ HandleRetry
    \/ \E i \in 1..Len(timers) : RetryTimer(i)
    \/ Stop

Spec == Init /\ [][Next]_vars

\* ------------------------------------------------------------ shutdown
\* main after the shutdown signal and workerService.Stop(): Container.Shutdown
\* closes the messaging service and the cache service at once
Shutdown ==
    /\ ~isRunning
    /\ ~connClosed
    /\ connClosed' = TRUE
    /\ UNCHANGED <<apiPc, jobTo, store, events, mainQueue, failedQueue, timers, pc,
                   cur, err, len0, sends, dupCount, isRunning, jobsProcessed,
                   storeUp, queueUp, smtpConfigOk, retryErr, malformed, mainPc, channelLost, smtpUp, health>>

NextShutdown ==
    \/ Next
    \/ Shutdown

SpecShutdown == Init /\ [][NextShutdown]_vars

\* ------------------------------------------------------------ crash
\* The worker process dies while the handler is working on a message and is
\* started again: the consumer registered with auto-ack, so the broker has
\* already forgotten the message; the goroutines and counters of the dead
\* process are gone, and Start sets isRunning.
Crash ==
    /\ pc # "idle"
    /\ pc' = "idle"
    /\ cur' = NoCur
    /\ err' = NoErr
    /\ len0' = 0
    /\ retryErr' = NoErr
    /\ timers' = <<>>
    /\ jobsProcessed' = 0
    /\ isRunning' = TRUE
    /\ connClosed' = FALSE
    /\ UNCHANGED <<apiPc, jobTo, store, events, mainQueue, failedQueue, sends,
                   dupCount, storeUp, queueUp, smtpConfigOk, malformed, mainPc, channelLost, smtpUp, health>>

NextCrash ==
    \/ Next
    \/ Crash

SpecCrash == Init /\ [][NextCrash]_vars

\* ------------------------------------------------------------ outages
\* Redis stops answering: every client call returns an error
StoreDown ==
    /\ storeUp
    /\ storeUp' = FALSE
    /\ UNCHANGED <<apiPc, jobTo, store, events, mainQueue, failedQueue, timers, pc,
                   cur, err, len0, sends, dupCount, isRunning, jobsProcessed,
                   queueUp, smtpConfigOk, retryErr, connClosed, malformed, mainPc, channelLost, smtpUp, health>>

\* RabbitMQ stops answering: publishes fail and nothing is delivered
QueueDown ==
    /\ queueUp
    /\ queueUp' = FALSE
    /\ UNCHANGED <<apiPc, jobTo, store, events, mainQueue, failedQueue, timers, pc,
                   cur, err, len0, sends, dupCount, isRunning, jobsProcessed,
                   storeUp, smtpConfigOk, retryErr, connClosed, malformed, mainPc, channelLost, smtpUp, health>>

NextOutage ==
    \/ Next
    \/ StoreDown
    \/ QueueDown

SpecOutage == Init /\ [][NextOutage]_vars

\* ------------------------------------------------------ malformed messages
\* Bodies ConsumeEmailJobs cannot turn into a valid job: no content member,
\* or a content whose job fails Validate (no recipient, unknown status)
MalformedMessages ==
    {[content |-> <<>>, flat |-> <<>>],
     [content |-> <<[ApiJob(1, "plain") EXCEPT !.to = ""]>>, flat |-> <<>>],
     [content |-> <<[ApiJob(1, "plain") EXCEPT !.status = "queued"]>>, flat |-> <<>>]}

\* Some other publisher puts a malformed body on email_tasks
PublishMalformed(m) ==
    /\ malformed < MaxMalformed
    /\ queueUp
    /\ mainQueue' = Append(mainQueue, m)
    /\ malformed' = malformed + 1
    /\ UNCHANGED <<apiPc, jobTo, store, events, failedQueue, timers, pc, cur, err,
                   len0, sends, dupCount, isRunning, jobsProcessed, storeUp,
                   queueUp, smtpConfigOk, retryErr, connClosed, mainPc, channelLost, smtpUp, health>>

NextMalformed ==
    \/ \E j \in Jobs, to \in ToKinds : SubmitStore(j, to)
    \/ \E j \in Jobs : SubmitEnqueue(j)
    \/ \E m \in MalformedMessages : PublishMalformed(m)
    \/ Consume
    \/ SendEmail
    \/ Complete
    \/ MarkFailed
    \/ HandleRetry
    \/ \E i \in 1..Len(timers) : RetryTimer(i)

SpecMalformed == Init /\ [][NextMalformed]_vars

\* ------------------------------------------------------------ connection loss
\* The broker drops the running worker's connection: the deliveries channel
\* of ConsumeEmailJobs is closed and the goroutine keeps selecting on it;
\* r.conn and r.channel stay the dead ones.
ConnectionLost ==
    /\ mainPc = "running"
    /\ queueUp
    /\ ~channelLost
    /\ queueUp' = FALSE
    /\ channelLost' = TRUE
    /\ UNCHANGED <<apiPc, jobTo, store, events, mainQueue, failedQueue,
                   timers, pc, cur, err, len0, sends, dupCount,
                   jobsProcessed, smtpConfigOk, retryErr, connClosed,
                   malformed, isRunning, storeUp, mainPc, smtpUp, health>>

\* RabbitMQ is reachable again.  Connect is called by ConnectInfrastructure
\* only, so a worker that is running does not dial again.
BrokerBack ==
    /\ ~queueUp
    /\ queueUp' = TRUE
    /\ UNCHANGED <<apiPc, jobTo, store, events, mainQueue, failedQueue,
                   timers, pc, cur, err, len0, sends, dupCount,
                   jobsProcessed, smtpConfigOk, retryErr, connClosed,
                   malformed, isRunning, storeUp, mainPc, channelLost, smtpUp, health>>

NextReconnect ==
    \/ \E j \in Jobs, to \in ToKinds : SubmitStore(j, to)
    \/ \E j \in Jobs : SubmitEnqueue(j)
    \/ Consume
    \/ SendEmail
    \/ Complete
    \/ MarkFailed
    \/ HandleRetry
    \/ \E i \in 1..Len(timers) : RetryTimer(i)
    \/ ConnectionLost
    \/ BrokerBack

\* the broker comes back, the loop takes what it is given, every step that
\* can be taken is taken
SpecReconnect ==
    /\ Init
    /\ [][NextReconnect]_vars
    /\ WF_vars(BrokerBack)
    /\ WF_vars(Consume)
    /\ WF_vars(NextReconnect)

\* ------------------------------------------------------------ startup
\* main before ConnectInfrastructure: nothing is connected, the worker
\* service is not started; RabbitMQ and Redis are each reachable or not, the
\* mail configuration is valid or not.
InitStartup ==
    /\ apiPc = [j \in Jobs |-> "new"]
    /\ jobTo = [j \in Jobs |-> "plain"]
    /\ store = [j \in Jobs |-> NoJob]
    /\ events = [j \in Jobs |-> <<>>]
    /\ mainQueue = <<>>
    /\ failedQueue = <<>>
    /\ timers = <<>>
    /\ pc = "idle"
    /\ cur = NoCur
    /\ err = NoErr
    /\ len0 = 0
    /\ sends = [j \in Jobs |-> 0]
    /\ dupCount = 0
    /\ isRunning = FALSE
    /\ jobsProcessed = 0
    /\ storeUp \in BOOLEAN
    /\ queueUp \in BOOLEAN
    /\ smtpConfigOk \in BOOLEAN
    /\ retryErr = NoErr
    /\ connClosed = FALSE
    /\ malformed = 0
    /\ mainPc = "connect"
    /\ channelLost = FALSE
    /\ smtpUp = TRUE
    /\ health = NoHealth

\* ConnectInfrastructure, the RabbitMQ loop: Connect, and on an error wait 5
\* seconds and try again
ConnectRabbitMQ ==
    /\ mainPc = "connect"
    /\ mainPc' = IF queueUp THEN "declare" ELSE "connect"
    /\ UNCHANGED <<apiPc, jobTo, store, events, mainQueue, failedQueue,
                   timers, pc, cur, err, len0, sends, dupCount,
                   jobsProcessed, smtpConfigOk, retryErr, connClosed,
                   malformed, isRunning, storeUp, queueUp, channelLost, smtpUp, health>>

\* ConnectInfrastructure: DeclareQueues; its error is returned and main ends
\* with log.Fatalf
DeclareQueues ==
    /\ mainPc = "declare"
    /\ mainPc' = IF queueUp THEN "ping" ELSE "fatal"
    /\ UNCHANGED <<apiPc, jobTo, store, events, mainQueue, failedQueue,
                   timers, pc, cur, err, len0, sends, dupCount,
                   jobsProcessed, smtpConfigOk, retryErr, connClosed,
                   malformed, isRunning, storeUp, queueUp, channelLost, smtpUp, health>>

\* ConnectInfrastructure: CacheService.Ping; its error is returned and main
\* ends with log.Fatalf
PingStore ==
    /\ mainPc = "ping"
    /\ mainPc' = IF storeUp THEN "config" ELSE "fatal"
    /\ UNCHANGED <<apiPc, jobTo, store, events, mainQueue, failedQueue,
                   timers, pc, cur, err, len0, sends, dupCount,
                   jobsProcessed, smtpConfigOk, retryErr, connClosed,
                   malformed, isRunning, storeUp, queueUp, channelLost, smtpUp, health>>

\* ConnectInfrastructure: EmailService.ValidateConfig
ValidateEmailConfig ==
    /\ mainPc = "config"
    /\ mainPc' = IF smtpConfigOk THEN "start" ELSE "fatal"
    /\ UNCHANGED <<apiPc, jobTo, store, events, mainQueue, failedQueue,
                   timers, pc, cur, err, len0, sends, dupCount,
                   jobsProcessed, smtpConfigOk, retryErr, connClosed,
                   malformed, isRunning, storeUp, queueUp, channelLost, smtpUp, health>>

\* WorkerService.Start: register the consumer; when that fails main cancels
\* its context, stops the worker service and returns
StartWorker ==
    /\ mainPc = "start"
    /\ IF queueUp
       THEN mainPc' = "running" /\ isRunning' = TRUE
       ELSE mainPc' = "fatal" /\ isRunning' = FALSE
    /\ UNCHANGED <<apiPc, jobTo, store, events, mainQueue, failedQueue,
                   timers, pc, cur, err, len0, sends, dupCount,
                   jobsProcessed, smtpConfigOk, retryErr, connClosed,
                   malformed, storeUp, queueUp, channelLost, smtpUp, health>>

\* Redis is reachable again
StoreBack ==
    /\ ~storeUp
    /\ storeUp' = TRUE
    /\ UNCHANGED <<apiPc, jobTo, store, events, mainQueue, failedQueue,
                   timers, pc, cur, err, len0, sends, dupCount,
                   jobsProcessed, smtpConfigOk, retryErr, connClosed,
                   malformed, isRunning, queueUp, mainPc, channelLost, smtpUp, health>>

NextStartup ==
    \/ ConnectRabbitMQ
    \/ DeclareQueues
    \/ PingStore
    \/ ValidateEmailConfig
    \/ StartWorker
    \/ StoreDown
    \/ QueueDown
    \/ StoreBack
    \/ BrokerBack
    \/ \E j \in Jobs, to \in ToKinds : SubmitStore(j, to)
    \/ \E j \in Jobs : SubmitEnqueue(j)
    \/ Consume
    \/ SendEmail
    \/ Complete
    \/ MarkFailed
    \/ HandleRetry
    \/ \E i \in 1..Len(timers) : RetryTimer(i)

SpecStartup == InitStartup /\ [][NextStartup]_vars

\* ------------------------------------------------------------ health check
HealthStatusHealthy == "healthy"
HealthStatusUnhealthy == "unhealthy"
HealthStatusDegraded == "degraded"

\* checkRedis, checkRabbitMQ, checkSMTP: the status recorded for a dependency
\* from the result of its Ping
DependencyStatus(name, pingOk) ==
    IF pingOk THEN HealthStatusHealthy
    ELSE IF name = "smtp" THEN HealthStatusDegraded
    ELSE HealthStatusUnhealthy

\* updateOverallStatus looking for a degraded dependency first
UpdateOverallStatusDegradedFirst(running, deps) ==
    IF ~running THEN HealthStatusUnhealthy
    ELSE IF \E n \in DOMAIN deps : deps[n] = HealthStatusDegraded
         THEN HealthStatusDegraded
    ELSE IF \E n \in DOMAIN deps : deps[n] = HealthStatusUnhealthy
         THEN HealthStatusUnhealthy
    ELSE HealthStatusHealthy

\* HealthResponse.updateOverallStatus over the dependencies recorded so far
UpdateOverallStatus(running, deps) ==
    IF ~running THEN HealthStatusUnhealthy
    ELSE IF \E n \in DOMAIN deps : deps[n] = HealthStatusUnhealthy
         THEN HealthStatusUnhealthy
    ELSE IF \E n \in DOMAIN deps : deps[n] = HealthStatusDegraded
         THEN HealthStatusDegraded
    ELSE HealthStatusHealthy

\* The response HealthHandler.HealthCheck builds: NewHealthResponse, then the
\* three checks, each ending in updateOverallStatus
HealthResponse(running, processed, redisOk, rabbitOk, smtpOk) ==
    LET deps == [n \in {"redis", "rabbitmq", "smtp"} |->
                    IF n = "redis" THEN DependencyStatus(n, redisOk)
                    ELSE IF n = "rabbitmq" THEN DependencyStatus(n, rabbitOk)
                    ELSE DependencyStatus(n, smtpOk)]
    IN [status |-> UpdateOverallStatus(running, deps),
        isRunning |-> running,
        jobsProcessed |-> processed,
        dependencies |-> deps]

\* SMTPService.Ping: the configuration is valid and the server answers
SMTPPingOk == smtpConfigOk /\ smtpUp

\* GET /health while the HTTP server is up
HealthCheck ==
    /\ mainPc = "running"
    /\ ~connClosed
    /\ health' = HealthResponse(isRunning, jobsProcessed, WorkerStoreUp,
                                WorkerQueueUp, SMTPPingOk)
    /\ UNCHANGED <<apiPc, jobTo, store, events, mainQueue, failedQueue,
                   timers, pc, cur, err, len0, sends, dupCount, isRunning,
                   jobsProcessed, storeUp, queueUp, smtpConfigOk, retryErr,
                   connClosed, malformed, mainPc, channelLost, smtpUp>>

\* The SMTP server stops accepting connections
SmtpDown ==
    /\ smtpUp
    /\ smtpUp' = FALSE
    /\ UNCHANGED <<apiPc, jobTo, store, events, mainQueue, failedQueue,
                   timers, pc, cur, err, len0, sends, dupCount, isRunning,
                   jobsProcessed, storeUp, queueUp, smtpConfigOk, retryErr,
                   connClosed, malformed, mainPc, channelLost, health>>

SmtpBack ==
    /\ ~smtpUp
    /\ smtpUp' = TRUE
    /\ UNCHANGED <<apiPc, jobTo, store, events, mainQueue, failedQueue,
                   timers, pc, cur, err, len0, sends, dupCount, isRunning,
                   jobsProcessed, storeUp, queueUp, smtpConfigOk, retryErr,
                   connClosed, malformed, mainPc, channelLost, health>>

NextHealth ==
    \/ HealthCheck
    \/ Stop
    \/ StoreDown
    \/ QueueDown
    \/ SmtpDown
    \/ SmtpBack
    \/ \E j \in Jobs, to \in ToKinds : SubmitStore(j, to)
    \/ \E j \in Jobs : SubmitEnqueue(j)
    \/ Consume
    \/ SendEmail
    \/ Complete
    \/ MarkFailed
    \/ HandleRetry
    \/ \E i \in 1..Len(timers) : RetryTimer(i)

SpecHealth == Init /\ [][NextHealth]_vars

\* ------------------------------------------------------------ key expiry
\* job:<id> is written with a time to live (SetEx, 24 hours): Redis deletes
\* the record when it runs out
Expire(j) ==
    /\ store[j] # NoJob
    /\ store' = [store EXCEPT ![j] = NoJob]
    /\ UNCHANGED <<apiPc, jobTo, events, mainQueue, failedQueue, timers, pc,
                   cur, err, len0, sends, dupCount, isRunning, jobsProcessed,
                   storeUp, queueUp, smtpConfigOk, retryErr, connClosed,
                   malformed, mainPc, channelLost, smtpUp, health>>

NextExpiry ==
    \/ Next
    \/ \E j \in Jobs : Expire(j)

SpecExpiry == Init /\ [][NextExpiry]_vars

\* ------------------------------------------------- HandleRetry on its inputs
\* An error that is not a *DomainError
UnknownError == "UNKNOWN_ERROR"

ErrorInputs ==
    {ValidationErrorCode, ConfigErrorCode, RedisErrorCode, RabbitMQErrorCode,
     SMTPErrorCode, JobProcessingErrorCode, UnknownError}

StatusInputs ==
    {JobStatusPending, JobStatusProcessing, JobStatusCompleted, JobStatusFailed,
     JobStatusRetrying}

MaxRetriesInputs == {0, ApiMaxRetries, MaxRetryCount + 1}

\* Jobs handleEmailJob can hand to HandleRetry
RetryInputs ==
    {[ApiJob(1, "plain") EXCEPT !.status = s, !.retryCount = rc, !.maxRetries = mx] :
        s \in StatusInputs, rc \in 0..MaxRetryCount, mx \in MaxRetriesInputs}

\* The stored record of a job the processor has marked processing
ProcessingRecord(id, to) ==
    UpdatedRecord(GetJob([k \in {id} |-> ApiRecord(id, to)], id),
                  JobStatusProcessing, NoErr, 0)

\* handleEmailJob is about to call HandleRetry(job, err): job 1 was submitted
\* and picked up, the job and the error are any of the inputs, and Redis and
\* RabbitMQ are each reachable or not.
InitRetry ==
    /\ apiPc = [j \in Jobs |-> IF j = 1 THEN "queued" ELSE "new"]
    /\ jobTo = [j \in Jobs |-> "plain"]
    /\ store = [j \in Jobs |-> IF j = 1 THEN ProcessingRecord(1, "plain") ELSE NoJob]
    /\ events = [j \in Jobs |->
                   IF j = 1
                   THEN <<StatusEvent(ProcessingRecord(1, "plain"), JobStatusProcessing, NoErr)>>
                   ELSE <<>>]
    /\ mainQueue = <<>>
    /\ failedQueue = <<>>
    /\ timers = <<>>
    /\ pc = "retry"
    /\ cur \in RetryInputs
    /\ err \in ErrorInputs
    /\ len0 = 1
    /\ sends = [j \in Jobs |-> 0]
    /\ dupCount = 0
    /\ isRunning = TRUE
    /\ jobsProcessed = 0
    /\ storeUp \in BOOLEAN
    /\ queueUp \in BOOLEAN
    /\ smtpConfigOk = TRUE
    /\ retryErr = NoErr
    /\ connClosed = FALSE
    /\ malformed = 0
    /\ mainPc = "running"
    /\ channelLost = FALSE
    /\ smtpUp = TRUE
    /\ health = NoHealth

NextRetry ==
    \/ HandleRetry
    \/ \E i \in 1..Len(timers) : RetryTimer(i)

SpecRetry == InitRetry /\ [][NextRetry]_vars

\* ------------------------------------------------- the consumer on its inputs
\* Job 1 was submitted and a message for it waits on email_tasks; the job in
\* the message has any status, retry count and retry limit of the inputs.
InitConsume ==
    /\ apiPc = [j \in Jobs |-> IF j = 1 THEN "queued" ELSE "new"]
    /\ jobTo = [j \in Jobs |-> "plain"]
    /\ store = [j \in Jobs |-> IF j = 1 THEN ApiRecord(1, "plain") ELSE NoJob]
    /\ events = [j \in Jobs |-> <<>>]
    /\ \E job \in RetryInputs : mainQueue = <<[content |-> <<job>>, flat |-> <<>>]>>
    /\ failedQueue = <<>>
    /\ timers = <<>>
    /\ pc = "idle"
    /\ cur = NoCur
    /\ err = NoErr
    /\ len0 = 0
    /\ sends = [j \in Jobs |-> 0]
    /\ dupCount = 0
    /\ isRunning = TRUE
    /\ jobsProcessed = 0
    /\ storeUp = TRUE
    /\ queueUp = TRUE
    /\ smtpConfigOk = TRUE
    /\ retryErr = NoErr
    /\ connClosed = FALSE
    /\ malformed = 0
    /\ mainPc = "running"
    /\ channelLost = FALSE
    /\ smtpUp = TRUE
    /\ health = NoHealth

NextConsume ==
    \/ Consume
    \/ SendEmail
    \/ Complete
    \/ MarkFailed
    \/ HandleRetry
    \/ \E i \in 1..Len(timers) : RetryTimer(i)

SpecConsume == InitConsume /\ [][NextConsume]_vars

\* ================================================================ properties
Stored(j) == store[j] # NoJob

StatusCount(h, s) == Cardinality({i \in 1..Len(h) : h[i].status = s})

\* jobs carried by the messages of a queue, whatever the envelope
QueueJobs(q) ==
    {q[i].content[1] : i \in {k \in 1..Len(q) : q[k].content # <<>>}} \cup
    {q[i].flat[1] : i \in {k \in 1..Len(q) : q[k].flat # <<>>}}

TimerJobs == {timers[i].job : i \in 1..Len(timers)}

\* The handling of job j has come to rest on a running worker: it was
\* submitted, nothing for it is queued or scheduled, and the handler is idle.
AtRest(j) ==
    /\ apiPc[j] = "queued"
    /\ isRunning
    /\ pc = "idle"
    /\ \A m \in QueueJobs(mainQueue) : m.id # j
    /\ \A t \in TimerJobs : t.id # j

\* The consume loop takes the head of email_tasks in this step
TakesHead ==
    /\ pc = "idle"
    /\ mainQueue # <<>>
    /\ mainQueue' = Tail(mainQueue)

\* C1: terminal statuses are absorbing in the status store: once the stored
\* status of a job is completed or failed, no step changes it.
C1_TerminalAbsorbing ==
    [][\A j \in Jobs :
         (Stored(j) /\ IsTerminal(store[j].status))
            => store'[j].status = store[j].status]_vars

LegalPairs ==
    {<<"queued", JobStatusProcessing>>, <<JobStatusPending, JobStatusProcessing>>,
     <<JobStatusRetrying, JobStatusProcessing>>,
     <<JobStatusProcessing, JobStatusCompleted>>,
     <<JobStatusProcessing, JobStatusFailed>>,
     <<JobStatusProcessing, JobStatusRetrying>>,
     <<JobStatusRetrying, JobStatusFailed>>}

\* C2: the stored history of every job is a legal path of the state machine:
\* every consecutive pair of entries is one of the legal transitions.
C2_LegalHistory ==
    \A j \in Jobs :
        Stored(j) =>
            \A i \in 1..(Len(store[j].history) - 1) :
                <<store[j].history[i].status, store[j].history[i + 1].status>>
                    \in LegalPairs

\* C3: handling a message for a job whose stored status is completed is a
\* no-op: no send is started, store, events and both queues stay as they are.
C3_DuplicateNoOp ==
    [][(TakesHead /\ isRunning /\ Head(mainQueue).content # <<>>
          /\ Stored(Head(mainQueue).content[1].id)
          /\ store[Head(mainQueue).content[1].id].status = JobStatusCompleted)
        => (pc' = "idle" /\ store' = store /\ events' = events
              /\ failedQueue' = failedQueue /\ timers' = timers
              /\ sends' = sends)]_vars

\* C4: while a job is not terminal its retry count never exceeds its maximum:
\* for the job in the handler, for the jobs held by retry timers and queue
\* messages, and for the stored retry count against the submitted maximum.
C4_RetryBound ==
    /\ (cur # NoCur /\ ~IsTerminal(cur.status)) => cur.retryCount <= cur.maxRetries
    /\ \A t \in TimerJobs : t.retryCount <= t.maxRetries
    /\ \A m \in QueueJobs(mainQueue) \cup QueueJobs(failedQueue) :
          m.retryCount <= m.maxRetries
    /\ \A j \in Jobs :
          (Stored(j) /\ ~IsTerminal(store[j].status))
             => store[j].retryCount <= ApiMaxRetries

\* a retry has been recorded and scheduled
C4_Witness ==
    \E j \in Jobs :
        /\ Stored(j)
        /\ store[j].status = JobStatusRetrying
        /\ store[j].retryCount = 1
        /\ \E t \in TimerJobs : t.id = j /\ t.retryCount = 1

\* C5: a retryable failure of the first attempt stores retrying with
\* retryCount 1, the retry timer publishes the job on email_tasks, and the
\* republished message, once consumed, is processed again.
C5_RetryReprocessed ==
    [][/\ (pc = "retry" /\ pc' = "idle" /\ IsRetryableError(err)
             /\ cur.retryCount = 0 /\ cur.maxRetries = 3 /\ ~IsTerminal(cur.status))
          => (/\ store'[cur.id].status = JobStatusRetrying
              /\ store'[cur.id].retryCount = 1
              /\ Len(timers') = Len(timers) + 1)
       /\ (Len(timers') < Len(timers))
          => (Len(mainQueue') = Len(mainQueue) + 1)
       /\ (TakesHead /\ isRunning /\ Head(mainQueue).flat # <<>>
             /\ Head(mainQueue).flat[1].status = JobStatusRetrying)
          => (/\ pc' = "processing"
              /\ cur'.id = Head(mainQueue).flat[1].id
              /\ store'[cur'.id].status = JobStatusProcessing)]_vars

\* C6: a job whose every send fails with a retryable error ends failed, with
\* a message on email_tasks_failed, exactly 3 retrying entries and exactly one
\* failed entry, the last one.
C6_ExhaustedRun ==
    \A j \in Jobs :
        (AtRest(j) /\ smtpConfigOk /\ jobTo[j] = "error")
          => /\ store[j].status = JobStatusFailed
             /\ \E m \in QueueJobs(failedQueue) : m.id = j
             /\ StatusCount(store[j].history, JobStatusRetrying) = 3
             /\ StatusCount(store[j].history, JobStatusFailed) = 1
             /\ store[j].history[Len(store[j].history)].status = JobStatusFailed

\* C7: a job whose send always fails with a retryable error is sent exactly 3
\* times before it ends failed, and under single delivery no job is sent more
\* than 3 times.
C7_BoundedSends ==
    \A j \in Jobs :
        /\ dupCount = 0 => sends[j] <= 3
        /\ (AtRest(j) /\ dupCount = 0 /\ smtpConfigOk /\ jobTo[j] = "error")
             => (store[j].status = JobStatusFailed /\ sends[j] = 3)

\* C8: when the first send attempt of a job fails with a validation or
\* configuration error, HandleRetry leaves the job failed with retryCount 0,
\* writes no retrying entry and schedules no republish on email_tasks.
C8_NonRetryableFailsDirectly ==
    [][(pc = "retry" /\ pc' = "idle" /\ cur.retryCount = 0 /\ sends[cur.id] = 1
          /\ (IsValidationError(err) \/ IsConfigError(err)))
        => (/\ store'[cur.id].status = JobStatusFailed
            /\ store'[cur.id].retryCount = 0
            /\ \A i \in (len0 + 1)..Len(store'[cur.id].history) :
                  store'[cur.id].history[i].status # JobStatusRetrying
            /\ mainQueue' = mainQueue
            /\ timers' = timers)]_vars

\* a first attempt failed on the SMTP configuration and the job was finalised
C8_Witness ==
    \E j \in Jobs :
        /\ ~smtpConfigOk
        /\ pc = "idle"
        /\ sends[j] = 1
        /\ Stored(j)
        /\ store[j].status = JobStatusFailed
        /\ store[j].retryCount = 0
        /\ \E m \in QueueJobs(failedQueue) : m.id = j

\* C9: when a pending job is picked up and the send succeeds, the handler
\* leaves the stored status completed and has added exactly two history
\* entries, processing then completed; under single delivery completed stays.
C9_SuccessPath ==
    [][/\ (pc = "sent" /\ pc' = "idle" /\ cur.status = JobStatusPending)
          => LET h == store'[cur.id].history
             IN /\ store'[cur.id].status = JobStatusCompleted
                /\ Len(h) = len0 + 2
                /\ h[len0 + 1].status = JobStatusProcessing
                /\ h[len0 + 2].status = JobStatusCompleted
                /\ SubSeq(h, 1, len0) = SubSeq(store[cur.id].history, 1, len0)
       /\ \A j \in Jobs :
            (dupCount' = 0 /\ Stored(j) /\ store[j].status = JobStatusCompleted)
               => store'[j] = store[j]]_vars

\* a job went queued, processing, completed
C9_Witness ==
    \E j \in Jobs :
        /\ Stored(j)
        /\ pc = "idle"
        /\ sends[j] = 1
        /\ store[j].status = JobStatusCompleted
        /\ Len(store[j].history) = 3
        /\ store[j].history[1].status = "queued"
        /\ store[j].history[2].status = JobStatusProcessing
        /\ store[j].history[3].status = JobStatusCompleted

\* C10: a submitted job is in the store with status queued and one history
\* entry before its message is enqueued and before the call returns; every
\* message on email_tasks belongs to a job that has a store record.
C10_StoredBeforeQueued ==
    /\ \A j \in Jobs :
          /\ apiPc[j] = "stored"
               => (Stored(j) /\ store[j].status = "queued"
                     /\ Len(store[j].history) = 1
                     /\ store[j].history[1].status = "queued")
          /\ apiPc[j] \in {"queued", "failed"} => Stored(j)
    /\ \A m \in QueueJobs(mainQueue) : Stored(m.id)

\* a job is stored as queued, its message is on email_tasks, nobody took it
C10_Witness ==
    \E j \in Jobs :
        /\ apiPc[j] = "queued"
        /\ Stored(j)
        /\ store[j].status = "queued"
        /\ \E m \in QueueJobs(mainQueue) : m.id = j

\* handleEmailJob's call of HandleRetry returns in this step
HandleRetryReturns == pc = "retry" /\ pc' = "idle"

DelayTable == <<1, 4, 9, 16, 25, 30, 30, 30, 30, 30>>

\* C11: the delay a retry goroutine sleeps before republishing is
\* min(retryCount^2, 30) seconds: 1, 4, 9, 16, 25 for retryCount 1..5 and 30
\* for retryCount 6..10.
C11_BackoffDelay ==
    \A i \in 1..Len(timers) :
        timers[i].job.retryCount \in 1..10
           => timers[i].delay = DelayTable[timers[i].job.retryCount]

\* retries are scheduled below and above the cap
C11_Witness ==
    /\ \E i \in 1..Len(timers) :
          timers[i].job.retryCount = 6 /\ timers[i].delay = 30

\* The condition under which the claim says HandleRetry finalises
Finalises(j, e) ==
    \/ j.retryCount >= j.maxRetries
    \/ j.status \in {JobStatusCompleted, JobStatusFailed}
    \/ e \in {ValidationErrorCode, ConfigErrorCode}

\* C12: HandleRetry finalises the job as failed iff retryCount >= maxRetries,
\* or the status is terminal, or the error is a validation or configuration
\* error; otherwise (unknown errors included) it increments the retry count,
\* persists retrying and schedules the republish.
C12_RetryDecision ==
    [][HandleRetryReturns =>
         IF Finalises(cur, err)
         THEN /\ timers' = timers
              /\ retryErr' # NoErr
              /\ storeUp => store'[cur.id].status = JobStatusFailed
         ELSE /\ Len(timers') = Len(timers) + 1
              /\ timers'[Len(timers')].job.id = cur.id
              /\ timers'[Len(timers')].job.retryCount = cur.retryCount + 1
              /\ timers'[Len(timers')].job.status = JobStatusRetrying
              /\ failedQueue' = failedQueue
              /\ retryErr' = NoErr
              /\ storeUp => (/\ store'[cur.id].status = JobStatusRetrying
                             /\ store'[cur.id].retryCount = cur.retryCount + 1)]_vars

\* an error of unknown type was retried, and a job out of retries was not
C12_Witness ==
    /\ pc = "idle"
    /\ \E t \in TimerJobs : t.lastError = UnknownError /\ t.retryCount = 1

\* C13: when HandleRetry finalises a job, failed is persisted and the job is
\* enqueued on email_tasks_failed; when that enqueue fails the stored status
\* is failed all the same and HandleRetry returns an error.  (Persisting
\* needs Redis to be reachable.)
C13_FinaliseDeadLetters ==
    [][(HandleRetryReturns /\ Finalises(cur, err)) =>
         /\ storeUp =>
               (/\ store'[cur.id].status = JobStatusFailed
                /\ store'[cur.id].history[Len(store'[cur.id].history)].status
                      = JobStatusFailed
                /\ Len(store'[cur.id].history) = Len(store[cur.id].history) + 1)
         /\ queueUp =>
               (/\ Len(failedQueue') = Len(failedQueue) + 1
                /\ failedQueue'[Len(failedQueue')].flat # <<>>
                /\ failedQueue'[Len(failedQueue')].flat[1].id = cur.id
                /\ failedQueue'[Len(failedQueue')].flat[1].status = JobStatusFailed)
         /\ ~queueUp => (failedQueue' = failedQueue /\ retryErr' # NoErr)]_vars

\* the dead-letter enqueue failed: failed is stored, an error was returned
C13_Witness ==
    /\ pc = "idle"
    /\ ~queueUp
    /\ storeUp
    /\ failedQueue = <<>>
    /\ timers = <<>>
    /\ store[1].status = JobStatusFailed
    /\ retryErr = JobProcessingErrorCode

\* a message on email_tasks or a sleeping retry goroutine carries job j
HasMessageOrTimer(j) ==
    \/ \E m \in QueueJobs(mainQueue) : m.id = j
    \/ \E t \in TimerJobs : t.id = j

NoOrphanedRetry ==
    \A j \in Jobs :
        (Stored(j) /\ store[j].status = JobStatusRetrying) => HasMessageOrTimer(j)

\* C14: when a retry goroutine's republish fails, the stored status of its
\* job becomes failed; and no job is stored as retrying without a message on
\* email_tasks or a pending retry goroutine.
C14_NoOrphanedRetry ==
    [][/\ \A i \in 1..Len(timers) :
             (timers' = RemoveAt(timers, i) /\ mainQueue' = mainQueue
                 /\ Stored(timers[i].job.id))
                => store'[timers[i].job.id].status = JobStatusFailed
       /\ NoOrphanedRetry']_vars

\* C15: a run in which the worker keeps running and everything queued has
\* been delivered and handled leaves every submitted job completed or failed
\* (so none is left in retrying, or short of a final status).
C15_EveryJobFinishes ==
    \A j \in Jobs : AtRest(j) => IsTerminal(store[j].status)

\* nothing is left that could still bring job j to a handler
NothingPending(j) ==
    /\ ~HasMessageOrTimer(j)
    /\ ~(pc # "idle" /\ cur.id = j)

\* C16: a job that was enqueued and has nothing pending any more was handled
\* through to a persisted outcome, also when the worker stopped or crashed
\* while it held the message.
C16_AtLeastOnce ==
    \A j \in Jobs :
        (apiPc[j] = "queued" /\ NothingPending(j))
           => store[j].status \in {JobStatusCompleted, JobStatusFailed, JobStatusRetrying}

\* C17: once Stop has run the consume loop takes nothing from email_tasks,
\* and the connections are closed only when no handler is in flight and no
\* requeue is outstanding.
C17_GracefulShutdown ==
    [][/\ ~isRunning => Len(mainQueue') >= Len(mainQueue)
       /\ (connClosed' /\ ~connClosed) => (pc = "idle" /\ timers = <<>>)]_vars

\* the worker's UpdateJobStatus rewrites the record of job j in this step
WorkerWrites(j) == store'[j] # store[j] /\ apiPc' = apiPc

C19_LoopStaysAlive ==
    /\ [](pc # "idle" => ENABLED (SendEmail \/ Complete \/ MarkFailed \/ HandleRetry))
    /\ []((pc = "idle" /\ WorkerQueueUp /\ mainQueue # <<>>) => ENABLED Consume)
    /\ [][/\ (pc = "senderr" /\ pc' # pc)
              => (pc' = "retry" /\ cur' = cur /\ err' = err /\ err # NoErr)
          /\ (pc = "idle" /\ pc' = "retry") => (err' # NoErr /\ cur' # NoCur)
          /\ (pc = "retry" /\ pc' # pc) => pc' = "idle"
          /\ (pc # "idle" /\ pc' = "idle") => pc \in {"sent", "retry"}]_vars

\* Redis went down while the first delivery was handled: the send failed, the
\* status writes failed, HandleRetry was still called (its retry goroutine is
\* there), and the loop has taken the next message
C19_Witness ==
    /\ ~storeUp
    /\ pc = "processing"
    /\ sends[1] = 1
    /\ Len(timers) = 1
    /\ timers[1].job.lastError = SMTPErrorCode
    /\ store[1].status = JobStatusProcessing

\* the body of message m does not give a valid job: no content member, or a
\* job without id or recipient, with a negative retry limit or with a status
\* that is not one of the five
CannotDeserialise(m) ==
    \/ m.content = <<>>
    \/ m.content[1].id = Absent
    \/ m.content[1].to = ""
    \/ m.content[1].maxRetries < 0
    \/ m.content[1].status \notin
          {JobStatusPending, JobStatusProcessing, JobStatusCompleted,
           JobStatusFailed, JobStatusRetrying}

\* the consume loop takes the message at the head of email_tasks in this step
LoopTakesMessage ==
    /\ pc = "idle"
    /\ mainQueue # <<>>
    /\ (Len(mainQueue') < Len(mainQueue) \/ mainQueue'[1] # mainQueue[1])

\* C20: when the loop takes a message that does not give a valid job, the
\* step writes nothing to the store, sends nothing, publishes no event, puts
\* nothing on either queue and starts no retry; the rest of email_tasks is
\* left in order and the loop is free to take the next message.
C20_MalformedDropped ==
    [][(LoopTakesMessage /\ CannotDeserialise(Head(mainQueue))) =>
          /\ store' = store
          /\ events' = events
          /\ sends' = sends
          /\ timers' = timers
          /\ failedQueue' = failedQueue
          /\ mainQueue' = Tail(mainQueue)
          /\ pc' = "idle"]_vars

\* a malformed message was published and has been taken from the queue with
\* nothing written, and the job's message taken after it is being processed
\* for the first time
C20_Witness ==
    /\ malformed = 1
    /\ mainQueue = <<>>
    /\ pc = "processing"
    /\ sends[1] = 0
    /\ Len(store[1].history) = 2
    /\ Len(events[1]) = 1
    /\ timers = <<>>
    /\ failedQueue = <<>>

\* C21: after the broker has dropped the running worker's connection, a
\* message that waits on email_tasks while the broker is reachable again is
\* eventually taken by the consume loop.
C21_ConsumptionResumes ==
    (channelLost /\ queueUp /\ mainQueue # <<>>) ~> (mainQueue = <<>>)

\* C22: at startup no failure of RabbitMQ or Redis ends the worker (only an
\* invalid mail configuration does), the consumer is registered with RabbitMQ
\* reachable, and the loop takes messages only once main has come through
\* connect, declare and ping.
C22_StartupWaits ==
    [][/\ (mainPc' = "fatal" /\ mainPc # "fatal") => mainPc = "config"
       /\ (mainPc' = "running" /\ mainPc # "running") => queueUp
       /\ LoopTakesMessage => mainPc = "running"]_vars

\* a health check is answered in this step
HealthAnswered == health' # health

\* C23: the health response is unhealthy when the worker is not running or
\* the Redis or the RabbitMQ ping fails; degraded when the worker is running,
\* both of these pings succeed and the SMTP ping fails; healthy when the
\* worker is running and all three pings succeed.
C23_HealthStatus ==
    [][HealthAnswered =>
          /\ (~isRunning \/ ~WorkerStoreUp \/ ~WorkerQueueUp)
                => health'.status = HealthStatusUnhealthy
          /\ (isRunning /\ WorkerStoreUp /\ WorkerQueueUp /\ ~SMTPPingOk)
                => health'.status = HealthStatusDegraded
          /\ (isRunning /\ WorkerStoreUp /\ WorkerQueueUp /\ SMTPPingOk)
                => health'.status = HealthStatusHealthy
          /\ health'.status = HealthStatusHealthy
                => (WorkerStoreUp /\ WorkerQueueUp /\ SMTPPingOk)]_vars

\* only the SMTP server is down: the response is degraded
C23_Witness ==
    /\ health.status = HealthStatusDegraded
    /\ isRunning
    /\ storeUp
    /\ queueUp
    /\ smtpConfigOk
    /\ ~smtpUp

C26_PublishErrorSurfaces ==
    [][/\ \A j \in Jobs :
             (apiPc[j] = "stored" /\ apiPc'[j] # "stored") =>
                IF mainQueue' = Append(mainQueue, ApiMessage(j, jobTo[j]))
                THEN apiPc'[j] = "queued"
                ELSE apiPc'[j] = "failed" /\ mainQueue' = mainQueue
       /\ (HandleRetryReturns /\ Finalises(cur, err) /\ failedQueue' = failedQueue)
             => (/\ PublishError(WorkerQueueUp, FailedJob(cur, err)) # NilError
                 /\ retryErr' = JobProcessingErrorCode)
       /\ \A i \in 1..Len(timers) :
             (timers' = RemoveAt(timers, i) /\ mainQueue' = mainQueue) =>
                (/\ PublishError(WorkerQueueUp, timers[i].job) # NilError
                 /\ UpdateOk(WorkerStoreUp, store, timers[i].job.id)
                       => store'[timers[i].job.id].lastError = "Failed to requeue")]_vars

\* RabbitMQ was down at submission: nothing was enqueued and the request
\* ended with the error
C26_Witness ==
    /\ apiPc[1] = "failed"
    /\ ~queueUp
    /\ Stored(1)
    /\ mainQueue = <<>>

\* C27: CanProcess is false for a completed and for a failed job and true
\* exactly for a pending and for a retrying one; the handler starts
\* processing a valid job exactly when CanProcess is true, and otherwise
\* hands it to HandleRetry without a status write.
C27_CanProcess ==
    [][(LoopTakesMessage /\ ~CannotDeserialise(Head(mainQueue)) /\ isRunning) =>
          LET job == Head(mainQueue).content[1]
              startable == job.status \in {JobStatusPending, JobStatusRetrying}
          IN /\ CanProcess(job) <=> startable
             /\ job.status \in {JobStatusCompleted, JobStatusFailed} => ~CanProcess(job)
             /\ (pc' = "processing") <=> startable
             /\ ~startable => (/\ pc' = "retry"
                               /\ err' = JobProcessingErrorCode
                               /\ store' = store
                               /\ sends' = sends)]_vars

\* a message carrying a completed job was taken and refused
C27_Witness ==
    /\ pc = "retry"
    /\ cur.status = JobStatusCompleted
    /\ err = JobProcessingErrorCode
    /\ mainQueue = <<>>
    /\ store[1].status = "queued"
    /\ sends[1] = 0

\* C28: the processed counter goes up by one in the step in which the handler
\* returns from a job whose send succeeded, and in no other step: not when a
\* send failed, not when a message is skipped because the worker is not
\* running, not when the job goes to HandleRetry.
C28_ProcessedCounter ==
    [][jobsProcessed' = IF pc = "sent" /\ pc' = "idle"
                        THEN jobsProcessed + 1
                        ELSE jobsProcessed]_vars

\* two deliveries were handled: one send succeeded and was counted, the other
\* failed and went to HandleRetry uncounted
C28_Witness ==
    /\ jobsProcessed = 1
    /\ sends[1] = 2
    /\ pc = "idle"
    /\ Len(timers) = 1

\* C29: a status write that fails does not stop the handling of a job.  A
\* startable job goes on to the send whether or not the write of processing
\* succeeded, and after a successful send the handler returns success
\* (counted, nothing handed to HandleRetry) whether or not the write of
\* completed succeeded.
C29_StatusWriteNeverBlocks ==
    /\ [](pc = "processing" => ENABLED SendEmail)
    /\ [](pc = "sent" => ENABLED Complete)
    /\ [][/\ (LoopTakesMessage /\ ~CannotDeserialise(Head(mainQueue)) /\ isRunning
                /\ CanProcess(Head(mainQueue).content[1]))
             => pc' = "processing"
          /\ (pc = "sent" /\ pc' # pc)
             => (/\ pc' = "idle"
                 /\ jobsProcessed' = jobsProcessed + 1
                 /\ timers' = timers
                 /\ failedQueue' = failedQueue
                 /\ retryErr' = retryErr)]_vars

\* Redis went down after the submission and before the job was picked up: neither processing nor
\* completed was written, the mail was sent and the job counted as processed
C29_Witness ==
    /\ ~storeUp
    /\ pc = "idle"
    /\ store[1] # NoJob
    /\ store[1].status = "queued"
    /\ events[1] = <<>>
    /\ sends[1] = 1
    /\ jobsProcessed = 1

C31_StoredRetryBound ==
    \A j \in Jobs :
        store[j] # NoJob =>
            GetJob(store, j).retryCount <= GetJob(store, j).maxRetries

\* ids of the jobs a queue message carries, in whichever envelope
MessageIds(m) ==
    {m.content[k].id : k \in 1..Len(m.content)} \cup {m.flat[k].id : k \in 1..Len(m.flat)}

\* live carriers of job j: messages on email_tasks, the handler in flight,
\* sleeping retry goroutines
Carriers(j) ==
    Cardinality({i \in 1..Len(mainQueue) : j \in MessageIds(mainQueue[i])})
    + Cardinality({i \in 1..Len(timers) : timers[i].job.id = j})
    + (IF pc # "idle" /\ cur.id = j THEN 1 ELSE 0)

\* messages on email_tasks_failed for job j
DeadLetters(j) ==
    Cardinality({i \in 1..Len(failedQueue) : j \in MessageIds(failedQueue[i])})

\* C32: as long as the broker has delivered nothing twice, a job has at most
\* one live carrier (queue message, handler in flight, sleeping retry
\* goroutine) and at most one message on email_tasks_failed; a step starts at
\* most one retry goroutine, only as HandleRetry returns, and a goroutine
\* that ends has put at most one message on email_tasks.
C32_SingleCarrier ==
    /\ [](dupCount = 0 => \A j \in Jobs : Carriers(j) <= 1 /\ DeadLetters(j) <= 1)
    /\ [][/\ Len(timers') <= Len(timers) + 1
          /\ Len(timers') > Len(timers) => (pc = "retry" /\ pc' = "idle")
          /\ Len(timers') < Len(timers) => Len(mainQueue') <= Len(mainQueue) + 1
          /\ Len(failedQueue') <= Len(failedQueue) + 1]_vars

\* the only carrier of the job is the retry goroutine of its failed attempt
C32_Witness ==
    /\ dupCount = 0
    /\ sends[1] = 1
    /\ Len(timers) = 1
    /\ Carriers(1) = 1

\* messages on email_tasks for job j that the worker published
Republished(q, j) ==
    Cardinality({i \in 1..Len(q) : \E k \in 1..Len(q[i].flat) : q[i].flat[k].id = j})

\* retry goroutines sleeping for job j
Sleeping(ts, j) == Cardinality({i \in 1..Len(ts) : ts[i].job.id = j})

C34_StoredRetryCount ==
    /\ [](\A j \in Jobs :
             Stored(j) =>
                store[j].retryCount = StatusCount(store[j].history, JobStatusRetrying))
    /\ [][\A j \in Jobs :
             (Stored(j) /\ store'[j] # NoJob) =>
                /\ store'[j].retryCount >= store[j].retryCount
                /\ ((pc = "idle" /\ pc' = "processing") \/ pc = "sent" \/ pc = "senderr")
                      => store'[j].retryCount = store[j].retryCount]_vars

\* C35: once its submission has returned, a job stored as queued has a
\* message on email_tasks or is in the handler; and a submission whose
\* enqueue fails does not leave the record in status queued.
C35_QueuedHasMessage ==
    /\ [](\A j \in Jobs :
             (Stored(j) /\ apiPc[j] # "stored" /\ store[j].status = "queued")
                => \/ \E m \in QueueJobs(mainQueue) : m.id = j
                   \/ (pc # "idle" /\ cur.id = j))
    /\ [][\A j \in Jobs :
             (apiPc[j] = "stored" /\ apiPc'[j] = "failed")
                => ~(Stored(j)' /\ store'[j].status = "queued")]_vars

\* C36: when the loop hands a job to handleEmailJob while the worker is not
\* running, nothing happens to it: the store, the events, the send counts, the
\* retry goroutines, email_tasks_failed and the processed counter are as
\* before, nothing is put back on email_tasks, and the handler has returned.
C36_SkippedWhenStopped ==
    [][(LoopTakesMessage /\ ~isRunning) =>
          /\ store' = store
          /\ events' = events
          /\ sends' = sends
          /\ timers' = timers
          /\ failedQueue' = failedQueue
          /\ mainQueue' = Tail(mainQueue)
          /\ jobsProcessed' = jobsProcessed
          /\ pc' = "idle"]_vars

\* the only message of the job was taken after Stop: the record is as the
\* API wrote it and nothing was sent
C36_Witness ==
    /\ ~isRunning
    /\ apiPc[1] = "queued"
    /\ dupCount = 0
    /\ mainQueue = <<>>
    /\ pc = "idle"
    /\ store[1] = ApiRecord(1, jobTo[1])
    /\ sends[1] = 0
    /\ events[1] = <<>>

\* C37: a write of UpdateJobStatus leaves the job id, the recipient, the
\* subject, the body, the retry limit and the creation timestamp of a stored
\* record, as GetJob decodes it, as they were before the write.
C37_UpdateStatusFrame ==
    [][\A j \in Jobs :
          (Stored(j) /\ store'[j] # NoJob) =>
             LET before == GetJob(store, j)
                 after == GetJob(store', j)
             IN /\ after.id = before.id
                /\ after.to = before.to
                /\ after.subject = before.subject
                /\ after.body = before.body
                /\ after.maxRetries = before.maxRetries
                /\ after.createdAt = before.createdAt]_vars

\* the record after the writes of processing and completed
C37_Witness ==
    /\ Stored(1)
    /\ Len(store[1].history) = 3
    /\ store[1].status = JobStatusCompleted
    /\ store[1].id = 1
    /\ store[1].to = jobTo[1]
    /\ store[1].subject = "subject"
    /\ store[1].createdAt = "createdAt"
    /\ GetJob(store, 1).body = GetJob([j \in Jobs |-> ApiRecord(j, jobTo[j])], 1).body
    /\ GetJob(store, 1).maxRetries = GetJob([j \in Jobs |-> ApiRecord(j, jobTo[j])], 1).maxRetries

====
